---- MODULE Spec2Model ----
(***************************************************************************)
(* A model of the ESXi imaging scripts: create-custom-iso.py (password     *)
(* entry, input validation, image build, kickstart rendering) and          *)
(* display-ks-content.py (image inspector).                                *)
(*                                                                         *)
(* Text is modelled as sequences of one-character strings, so that         *)
(* str.lower(), str.strip(), str.join() and the regular expressions of the *)
(* validators are computed character by character.                         *)
(***************************************************************************)
EXTENDS Integers, Sequences, FiniteSets, TLC

VARIABLES
    prog,            \* which script runs: "create-custom-iso" or "display-ks-content"
    pc,              \* the statement the script is at
    \* generate_encrypted_root_pwd
    counter,         \* retries left
    esxi_root_pwd1,  \* the password as entered
    esxi_root_pwd2,  \* the password as re-entered
    pairs,           \* password/confirmation pairs asked so far
    openssl_arg,     \* the password handed to "openssl passwd -6"
    rootw_pwd,       \* the encrypted password returned to __main__
    \* the input document and the gates of build_custom_image
    json_file,       \* the input document, as json.load returns it
    size_bytes,      \* validate_disk_space: size of the base image
    available_space, \* enough_disk_space: free space of the working directory
    \* the file system
    iso_exists,      \* the base image file exists
    iso_has_ks,      \* the image given to the inspector holds KS.CFG
    mnt,             \* the mount point: "absent", "empty" or "nonempty"
    mounted,         \* an image is mounted on the mount point
    temp_root,       \* "./temp" exists
    temp_folder,     \* "./temp/<RANDOM_STRING>" exists
    copied,          \* the image's tree was copied into temp_folder
    patched,         \* the two boot.cfg copies were patched
    ks_file,         \* the chunks written to KS.CFG, in order
    ks_state,        \* "none", "open" or "closed"
    out_iso,         \* the output image exists
    \* bookkeeping of the run
    host,            \* index of the host the rendering loop is at
    md5_chksum,      \* the output image's checksum was computed
    shown,           \* what the inspector reported: "none", "contents", "error"
    returncode,      \* return code of the last external command
    exc,             \* the uncaught exception that ended the run, "" if none
    ops,             \* the file-system calls and commands executed, in order
    log,             \* the records logged by the gates
    \* a stand-alone validate_json call
    vj_pc,           \* position of the call
    vj_ret,          \* its return value
    vj_log,          \* the records it logged, in emission order
    \* builds running side by side
    cwd,             \* the working directory of each build
    c_pc,            \* the statement each build is at
    c_name,          \* RANDOM_STRING of each build
    c_mnt,           \* per directory: the mount point exists
    c_mounts,        \* per directory: images mounted on the mount point
    c_owner,         \* per directory: the build whose makedirs made the mount point
    c_temp,          \* per directory: "./temp" exists
    c_trees,         \* per directory: the folders under "./temp"
    c_out,           \* per build: the output image was authored
    \* the boot.cfg patches on their own
    boot_in,         \* the two boot.cfg copies as the base image holds them
    boot_cfg,        \* the two boot.cfg copies in temp_folder
    p_pc             \* number of case_insensitive_search_and_replace calls made

pwdvars == <<counter, esxi_root_pwd1, esxi_root_pwd2, pairs, openssl_arg>>
gatevars == <<size_bytes, available_space>>
fsvars == <<iso_exists, iso_has_ks, mnt, mounted, temp_root, temp_folder, copied,
            patched, ks_file, ks_state, out_iso>>
runvars == <<host, md5_chksum, shown, returncode, exc, ops, log>>
vjvars == <<vj_pc, vj_ret, vj_log>>
concvars == <<cwd, c_pc, c_name, c_mnt, c_mounts, c_owner, c_temp, c_trees, c_out>>
patchvars == <<boot_in, boot_cfg, p_pc>>
othervars == <<vjvars, concvars, patchvars>>
vars == <<prog, pc, pwdvars, rootw_pwd, json_file, gatevars, fsvars, runvars, othervars>>

\* no stand-alone validate_json call, no builds side by side
ValidateIdle == vj_pc = "idle" /\ vj_ret = [some |-> FALSE] /\ vj_log = <<>>
PatchIdle == boot_in = <<>> /\ boot_cfg = <<>> /\ p_pc = 0
BuildsIdle ==
    /\ cwd = <<>> /\ c_pc = <<>> /\ c_name = <<>> /\ c_out = <<>>
    /\ c_mnt = <<>> /\ c_mounts = <<>> /\ c_owner = <<>> /\ c_temp = <<>> /\ c_trees = <<>>

(***************************************************************************)
(* Bounds of the model.                                                    *)
(***************************************************************************)
MaxHosts == 2        \* longest "hosts" list of a document
MaxDns == 1          \* longest "dns" list of a document
MaxIsoSize == 2      \* largest size of the base image, in blocks
MaxFree == 4         \* largest free space of the working directory, in blocks

(***************************************************************************)
(* Python values.                                                          *)
(***************************************************************************)
None == [some |-> FALSE]
Some(v) == [some |-> TRUE, v |-> v]
\* truth value of an optional str/list: None, "" and [] are falsy
Truthy(o) == o.some /\ o.v # <<>>

SeqsUpTo(S, n) == UNION {[1..k -> S] : k \in 0..n}

(***************************************************************************)
(* Characters and the str methods used by the scripts.                     *)
(***************************************************************************)
Digits == {"0", "1", "2", "3", "4", "5", "6", "7", "8", "9"}
HexLetters == {"a", "b", "c", "d", "e", "f", "A", "B", "C", "D", "E", "F"}
Whitespace == {" ", "\n", "\t"}

DigitVal(c) ==
    CASE c = "0" -> 0 [] c = "1" -> 1 [] c = "2" -> 2 [] c = "3" -> 3
      [] c = "4" -> 4 [] c = "5" -> 5 [] c = "6" -> 6 [] c = "7" -> 7
      [] c = "8" -> 8 [] c = "9" -> 9

LowerChar(c) ==
    CASE c = "A" -> "a" [] c = "B" -> "b" [] c = "C" -> "c" [] c = "D" -> "d"
      [] c = "E" -> "e" [] c = "F" -> "f" [] c = "G" -> "g" [] c = "H" -> "h"
      [] c = "I" -> "i" [] c = "J" -> "j" [] c = "K" -> "k" [] c = "L" -> "l"
      [] c = "M" -> "m" [] c = "N" -> "n" [] c = "O" -> "o" [] c = "P" -> "p"
      [] c = "Q" -> "q" [] c = "R" -> "r" [] c = "S" -> "s" [] c = "T" -> "t"
      [] c = "U" -> "u" [] c = "V" -> "v" [] c = "W" -> "w" [] c = "X" -> "x"
      [] c = "Y" -> "y" [] c = "Z" -> "z"
      [] OTHER -> c

\* str.lower()
Lower(s) == [i \in 1..Len(s) |-> LowerChar(s[i])]

RECURSIVE LStrip(_)
LStrip(s) ==
    IF s # <<>> /\ Head(s) \in Whitespace THEN LStrip(Tail(s)) ELSE s

RECURSIVE RStrip(_)
RStrip(s) ==
    IF s # <<>> /\ s[Len(s)] \in Whitespace
    THEN RStrip(SubSeq(s, 1, Len(s) - 1))
    ELSE s

\* str.strip()
Strip(s) == RStrip(LStrip(s))

\* str.startswith(p)
StartsWith(s, p) == Len(s) >= Len(p) /\ SubSeq(s, 1, Len(p)) = p

\* sep.join(parts)
RECURSIVE Join(_, _)
Join(sep, parts) ==
    IF parts = <<>> THEN <<>>
    ELSE IF Len(parts) = 1 THEN parts[1]
    ELSE parts[1] \o sep \o Join(sep, Tail(parts))

\* s.split(sep) for a one-character separator
RECURSIVE SplitFrom(_, _, _)
SplitFrom(s, sep, cur) ==
    IF s = <<>> THEN <<cur>>
    ELSE IF Head(s) = sep THEN <<cur>> \o SplitFrom(Tail(s), sep, <<>>)
    ELSE SplitFrom(Tail(s), sep, Append(cur, Head(s)))

Split(s, sep) == SplitFrom(s, sep, <<>>)

(***************************************************************************)
(* validate_ip: the IPv4 pattern, then ipaddress.IPv4Address.              *)
(***************************************************************************)
\* one octet of ipv4_pattern: 25[0-5] | 2[0-4][0-9] | [01]?[0-9][0-9]?
OctetPattern(o) ==
    /\ Len(o) \in 1..3
    /\ \A i \in 1..Len(o) : o[i] \in Digits
    /\ Len(o) = 3 =>
          \/ o[1] \in {"0", "1"}
          \/ o[1] = "2" /\ o[2] \in {"0", "1", "2", "3", "4"}
          \/ o[1] = "2" /\ o[2] = "5" /\ o[3] \in {"0", "1", "2", "3", "4", "5"}

\* re.match(ipv4_pattern, ip): "$" also matches before one trailing newline
Ipv4PatternMatch(ip) ==
    LET body == IF ip # <<>> /\ ip[Len(ip)] = "\n"
                THEN SubSeq(ip, 1, Len(ip) - 1) ELSE ip
        parts == Split(body, ".")
    IN  Len(parts) = 4 /\ \A i \in 1..4 : OctetPattern(parts[i])

OctetValue(o) ==
    IF Len(o) = 1 THEN DigitVal(o[1])
    ELSE IF Len(o) = 2 THEN 10 * DigitVal(o[1]) + DigitVal(o[2])
    ELSE 100 * DigitVal(o[1]) + 10 * DigitVal(o[2]) + DigitVal(o[3])

\* ipaddress.IPv4Address(ip) does not raise AddressValueError: four decimal
\* octets of at most three digits, no leading zero, each at most 255
IPv4AddressParses(ip) ==
    LET parts == Split(ip, ".")
    IN  /\ Len(parts) = 4
        /\ \A i \in 1..4 :
              /\ Len(parts[i]) \in 1..3
              /\ \A j \in 1..Len(parts[i]) : parts[i][j] \in Digits
              /\ Len(parts[i]) > 1 => parts[i][1] # "0"
              /\ OctetValue(parts[i]) <= 255

validate_ip(ip) ==
    IF Ipv4PatternMatch(ip) THEN IPv4AddressParses(ip) ELSE FALSE

(***************************************************************************)
(* validate_mac: ^([0-9A-Fa-f]{2}[:-]){5}([0-9A-Fa-f]{2})$                *)
(***************************************************************************)
validate_mac(mac) ==
    LET body == IF mac # <<>> /\ mac[Len(mac)] = "\n"
                THEN SubSeq(mac, 1, Len(mac) - 1) ELSE mac
    IN  /\ Len(body) = 17
        /\ \A i \in 1..17 :
              IF i % 3 = 0 THEN body[i] \in {":", "-"}
              ELSE body[i] \in Digits \cup HexLetters

(***************************************************************************)
(* Sample field values of the input document.                              *)
(***************************************************************************)
DHCP_LOWER == <<"d", "h", "c", "p">>
DHCP_UPPER == <<"D", "H", "C", "P">>
DHCP_MIXED == <<"D", "h", "c", "p">>
IP_OK == <<"1", "0", ".", "0", ".", "0", ".", "1">>
GW_OK == <<"1", "0", ".", "0", ".", "0", ".", "2", "5", "4">>
NM_OK == <<"2", "5", "5", ".", "2", "5", "5", ".", "2", "5", "5", ".", "0">>
IP_BAD == <<"2", "5", "6", ".", "1", ".", "1", ".", "1">>
NM_BAD == <<"2", "5", "5", ".", "2", "5", "5", ".", "0">>
DNS_OK == <<"8", ".", "8", ".", "8", ".", "8">>
MAC_OK == <<"a", "a", ":", "b", "b", ":", "c", "c", ":", "d", "d", ":", "e", "e", ":", "0", "1">>
MAC_UPPER == <<"A", "A", "-", "B", "B", "-", "C", "C", "-", "D", "D", "-", "E", "E", "-", "0", "F">>
MAC_BAD == <<"a", "a", ":", "b", "b", ":", "c", "c">>
DigitChar == <<"1", "2", "3", "4", "5", "6", "7", "8", "9">>
HostName(i) == <<"h", DigitChar[i]>>
VLAN == <<"0">>

(***************************************************************************)
(* validate_json.  The logger is modelled by the sequence of records the   *)
(* function emits; st carries error_string and that sequence through the   *)
(* loops.                                                                  *)
(***************************************************************************)
validate_set_hosts == <<"macAddress", "mgmtIpv4", "mgmtGateway", "mgmtNetmask">>

NameserverError(validate_item) ==
    [level |-> "error", item |-> "nameserver", value |-> validate_item]

HostItemError(validate_item, host_data) ==
    [level |-> "error", item |-> validate_item, host |-> host_data.hostName]

Flag(st, rec) == [error_string |-> TRUE, log |-> Append(st.log, rec)]

\* for validate_item in validate_set_dns
RECURSIVE dns_loop(_, _)
dns_loop(dns, st) ==
    IF dns = <<>> THEN st
    ELSE dns_loop(Tail(dns),
                  IF ~validate_ip(Head(dns))
                  THEN Flag(st, NameserverError(Head(dns)))
                  ELSE st)

\* host_items_loop with the "dhcp" test made case-sensitive (lower() dropped)
RECURSIVE host_items_loop_CaseSensitive(_, _, _)
host_items_loop_CaseSensitive(host_data, i, st) ==
    IF i > Len(validate_set_hosts) THEN st
    ELSE LET validate_item == validate_set_hosts[i]
         IN  IF validate_item = "macAddress"
             THEN host_items_loop_CaseSensitive(host_data, i + 1,
                      IF ~validate_mac(host_data[validate_item])
                      THEN Flag(st, HostItemError(validate_item, host_data))
                      ELSE st)
             ELSE IF host_data[validate_item] # DHCP_LOWER
                  THEN host_items_loop_CaseSensitive(host_data, i + 1,
                           IF ~validate_ip(host_data[validate_item])
                           THEN Flag(st, HostItemError(validate_item, host_data))
                           ELSE st)
                  ELSE st

\* for validate_item in validate_set_hosts, from the i-th item on
RECURSIVE host_items_loop(_, _, _)
host_items_loop(host_data, i, st) ==
    IF i > Len(validate_set_hosts) THEN st
    ELSE LET validate_item == validate_set_hosts[i]
         IN  IF validate_item = "macAddress"
             THEN host_items_loop(host_data, i + 1,
                      IF ~validate_mac(host_data[validate_item])
                      THEN Flag(st, HostItemError(validate_item, host_data))
                      ELSE st)
             ELSE IF Lower(host_data[validate_item]) # DHCP_LOWER
                  THEN host_items_loop(host_data, i + 1,
                           IF ~validate_ip(host_data[validate_item])
                           THEN Flag(st, HostItemError(validate_item, host_data))
                           ELSE st)
                  ELSE st    \* break

\* hosts_loop giving up at the first host that has a violation
RECURSIVE hosts_loop_StopAtFirstViolation(_, _)
hosts_loop_StopAtFirstViolation(hosts, st) ==
    IF hosts = <<>> THEN st
    ELSE LET st1 == host_items_loop(Head(hosts), 1, st)
         IN  IF st1.error_string THEN st1
             ELSE hosts_loop_StopAtFirstViolation(Tail(hosts), st1)

\* for host_data in json_data["hosts"]
RECURSIVE hosts_loop(_, _)
hosts_loop(hosts, st) ==
    IF hosts = <<>> THEN st
    ELSE hosts_loop(Tail(hosts), host_items_loop(Head(hosts), 1, st))

validate_json(json_data) ==
    LET validate_set_dns == json_data.dns
        st0 == [error_string |-> FALSE, log |-> <<>>]
        st1 == IF Truthy(validate_set_dns)
               THEN dns_loop(validate_set_dns.v, st0) ELSE st0
        st2 == hosts_loop(json_data.hosts, st1)
    IN  IF st2.error_string
        THEN [ret |-> FALSE,
              log |-> Append(st2.log, [level |-> "error", item |-> "summary"])]
        ELSE [ret |-> TRUE,
              log |-> Append(st2.log, [level |-> "info", item |-> "summary"])]

(***************************************************************************)
(* Documents for the stand-alone validation runs: every combination of the *)
(* validated fields, the rendering fields fixed.  hostName is the host's   *)
(* position, so that error records of different hosts differ.              *)
(***************************************************************************)
ValidHostFields(macs, ips, gws, nms) ==
    [hostName : {HostName(1)},
     macAddress : macs,
     mgmtIpv4 : ips,
     mgmtGateway : gws,
     mgmtNetmask : nms,
     mgmtVlanId : {VLAN},
     installDisk : {<<"u", "s", "b">>},
     clearPart : {None}]

\* every mgmtIpv4/mgmtGateway combination under a good netmask, the
\* "dhcp" and malformed gateways under a bad one, and two hosts with a bad MAC
ValidateHosts ==
    ValidHostFields({MAC_OK}, {DHCP_UPPER, IP_OK, IP_BAD},
                    {GW_OK, DHCP_LOWER, IP_BAD}, {NM_OK})
    \cup ValidHostFields({MAC_OK}, {DHCP_UPPER, IP_OK},
                         {DHCP_LOWER, IP_BAD}, {NM_BAD})
    \cup ValidHostFields({MAC_BAD}, {IP_OK, IP_BAD}, {GW_OK}, {NM_OK})

Named(hs) == [i \in 1..Len(hs) |-> [hs[i] EXCEPT !.hostName = HostName(i)]]

DnsLists == {None} \cup {Some(d) : d \in SeqsUpTo({DNS_OK, IP_BAD}, MaxDns)}

Document(hosts, dns, eula, sum) ==
    [esxiIsoFileName |-> <<"e", ".", "i", "s", "o">>,
     isoMdSum |-> sum,
     AcceptEsxiLicenseAgreement |-> eula,
     dnsSuffix0 |-> None,
     dns |-> dns,
     hosts |-> hosts]

YES == <<"Y", "e", "s">>
SUM_A == <<"0", "a">>

ValidateConfigs ==
    {Document(Named(hs), dns, YES, SUM_A) :
        hs \in SeqsUpTo(ValidateHosts, MaxHosts), dns \in DnsLists}

(***************************************************************************)
(* SpecValidate: validate_json applied to a document.                      *)
(***************************************************************************)
\* the scripts' own state while only validate_json is exercised
ScriptsIdle ==
    /\ prog = "none" /\ pc = "idle"
    /\ counter = 0 /\ esxi_root_pwd1 = None /\ esxi_root_pwd2 = None /\ pairs = 0
    /\ openssl_arg = None
    /\ rootw_pwd = None
    /\ size_bytes = 0 /\ available_space = 0
    /\ iso_exists = FALSE /\ iso_has_ks = FALSE
    /\ mnt = "absent" /\ mounted = FALSE
    /\ temp_root = FALSE /\ temp_folder = FALSE /\ copied = FALSE /\ patched = FALSE
    /\ ks_file = <<>> /\ ks_state = "none" /\ out_iso = FALSE
    /\ host = 0 /\ md5_chksum = FALSE /\ shown = "none"
    /\ returncode = 0 /\ exc = "" /\ ops = <<>> /\ log = <<>>

InitValidate ==
    /\ json_file \in ValidateConfigs
    /\ vj_pc = "call"
    /\ vj_ret = None
    /\ vj_log = <<>>
    /\ ScriptsIdle
    /\ BuildsIdle /\ PatchIdle

ValidateJsonCall ==
    /\ vj_pc = "call"
    /\ LET r == validate_json(json_file)
       IN  /\ vj_ret' = Some(r.ret)
           /\ vj_log' = r.log
    /\ vj_pc' = "returned"
    /\ UNCHANGED <<prog, pc, pwdvars, rootw_pwd, json_file, gatevars, fsvars, runvars, concvars, patchvars>>

NextValidate == ValidateJsonCall

SpecValidate == InitValidate /\ [][NextValidate]_vars

(***************************************************************************)
(* Claims about validate_json.                                             *)
(***************************************************************************)
IpItems == <<"mgmtIpv4", "mgmtGateway", "mgmtNetmask">>
IsDhcp(s) == Lower(s) = DHCP_LOWER
FieldErrors(lg) == SelectSeq(lg, LAMBDA r : r.item # "summary")
Count(lg, rec) == Cardinality({k \in 1..Len(lg) : lg[k] = rec})

\* C2: whenever validate_json returns True, every host whose mgmtIpv4 is not
\* "dhcp" (case-insensitive) has mgmtIpv4, mgmtNetmask and mgmtGateway that
\* pass validate_ip, and every host has a macAddress that passes validate_mac.
C2_ValidImpliesFieldsValid ==
    (vj_pc = "returned" /\ vj_ret = Some(TRUE)) =>
        \A i \in 1..Len(json_file.hosts) :
            LET h == json_file.hosts[i]
            IN  /\ validate_mac(h.macAddress)
                /\ ~IsDhcp(h.mgmtIpv4) =>
                      /\ validate_ip(h.mgmtIpv4)
                      /\ validate_ip(h.mgmtNetmask)
                      /\ validate_ip(h.mgmtGateway)

\* C3: for a host whose mgmtIpv4 is "dhcp" in any letter case, validate_json
\* records no error for that host's mgmtIpv4, mgmtGateway or mgmtNetmask, and
\* its return value is the same whatever the gateway and netmask hold.
C3_DhcpHostSkipsIpChecks ==
    vj_pc = "returned" =>
        \A i \in 1..Len(json_file.hosts) :
            LET h == json_file.hosts[i]
            IN  IsDhcp(h.mgmtIpv4) =>
                  /\ \A k \in 1..Len(vj_log) :
                        ~(/\ vj_log[k].item \in {"mgmtIpv4", "mgmtGateway", "mgmtNetmask"}
                          /\ vj_log[k].host = h.hostName)
                  /\ \A gw \in {GW_OK, IP_BAD}, nm \in {NM_OK, NM_BAD} :
                        validate_json([json_file EXCEPT
                            !.hosts[i].mgmtGateway = gw,
                            !.hosts[i].mgmtNetmask = nm]).ret = vj_ret.v

C3_Witness ==
    /\ vj_pc = "returned"
    /\ vj_ret = Some(TRUE)
    /\ \E i \in 1..Len(json_file.hosts) :
          /\ json_file.hosts[i].mgmtIpv4 = DHCP_UPPER
          /\ json_file.hosts[i].mgmtGateway = IP_BAD
          /\ json_file.hosts[i].mgmtNetmask = NM_BAD

\* the fields of a host that validate_json checks: the MAC always, and an
\* address field when neither it nor an earlier address field is "dhcp"
CheckedInvalid(h) ==
    {f \in {"macAddress"} : ~validate_mac(h[f])}
    \cup {IpItems[p] : p \in {q \in 1..3 :
              /\ \A r \in 1..q : ~IsDhcp(h[IpItems[r]])
              /\ ~validate_ip(h[IpItems[q]])}}

CheckedInvalidDns(doc) ==
    IF Truthy(doc.dns)
    THEN {j \in 1..Len(doc.dns.v) : ~validate_ip(doc.dns.v[j])}
    ELSE {}

RECURSIVE SumOver(_, _)
SumOver(f, n) == IF n = 0 THEN 0 ELSE f[n] + SumOver(f, n - 1)

\* C4: validate_json examines every DNS entry and every host, emits exactly
\* one error record per checked field that is invalid, and returns False
\* exactly when at least one such record was emitted.
C4_OneErrorPerViolation ==
    vj_pc = "returned" =>
        LET errs == FieldErrors(vj_log)
            hosts == json_file.hosts
            perHost == [i \in 1..Len(hosts) |-> Cardinality(CheckedInvalid(hosts[i]))]
        IN  /\ Len(errs) = Cardinality(CheckedInvalidDns(json_file))
                           + SumOver(perHost, Len(hosts))
            /\ \A i \in 1..Len(hosts) : \A f \in CheckedInvalid(hosts[i]) :
                  Count(errs, HostItemError(f, hosts[i])) = 1
            /\ \A j \in CheckedInvalidDns(json_file) :
                  Count(errs, NameserverError(json_file.dns.v[j])) =
                     Cardinality({k \in CheckedInvalidDns(json_file) :
                                     json_file.dns.v[k] = json_file.dns.v[j]})
            /\ (vj_ret = Some(FALSE)) <=> (errs # <<>>)

C4_Witness ==
    /\ vj_pc = "returned"
    /\ Len(json_file.hosts) >= 2
    /\ CheckedInvalid(json_file.hosts[1]) # {}
    /\ CheckedInvalid(json_file.hosts[2]) # {}
    /\ CheckedInvalidDns(json_file) # {}
    /\ Len(FieldErrors(vj_log)) >= 3

(***************************************************************************)
(* Documents for the runs of create-custom-iso.py.                         *)
(***************************************************************************)
USB == <<"u", "s", "b">>
DISK_LOCAL == <<"l", "o", "c", "a", "l">>
DISK_LOCAL_PADDED == <<" ", "l", "o", "c", "a", "l", " ">>
RAW_DISK == <<"-", "-", "d">>
BAD_DISK == <<"s", "s", "d">>
CLEAR_ALL == <<"-", "-", "a">>
YES_PADDED == <<" ", "Y", "e", "s">>
YES_LOWER == <<"y", "e", "s">>
SUM_A_PADDED == <<"0", "a", " ">>
SUM_B == <<"0", "b">>
DNS_SUFFIX == <<"l", "a", "b">>
Passwords == {<<"p">>, <<"q">>}

BuildHostFields(macs, ips, disks, clears) ==
    [hostName : {HostName(1)},
     macAddress : macs,
     mgmtIpv4 : ips,
     mgmtGateway : {GW_OK},
     mgmtNetmask : {NM_OK},
     mgmtVlanId : {VLAN},
     installDisk : disks,
     clearPart : clears]

\* hosts of the build runs: a DHCP host, a static host whose installDisk is
\* not allowed, a static host that renders, and a host with a malformed MAC
BuildHosts ==
    BuildHostFields({MAC_UPPER}, {DHCP_MIXED}, {USB}, {None})
    \cup BuildHostFields({MAC_UPPER}, {IP_OK}, {BAD_DISK, RAW_DISK}, {Some(CLEAR_ALL)})
    \cup BuildHostFields({MAC_BAD}, {IP_OK}, {USB}, {None})

BuildConfigs ==
    {[Document(Named(hs), dns, eula, sum) EXCEPT !.dnsSuffix0 = Some(DNS_SUFFIX)] :
        hs \in SeqsUpTo(BuildHosts, MaxHosts), dns \in DnsLists,
        eula \in {YES_PADDED, YES_LOWER}, sum \in {SUM_A_PADDED, SUM_B}}

\* hosts of the rendering runs: every combination of addressing mode,
\* installDisk and clearPart, all of them valid for validate_json
RenderHosts ==
    BuildHostFields({MAC_UPPER}, {DHCP_MIXED, IP_OK}, {USB, RAW_DISK, BAD_DISK},
                    {None, Some(<<>>), Some(CLEAR_ALL)})
    \cup BuildHostFields({MAC_UPPER}, {IP_OK}, {DISK_LOCAL_PADDED}, {None})

RenderConfigs ==
    {[Document(Named(hs), dns, YES_PADDED, SUM_A_PADDED)
         EXCEPT !.dnsSuffix0 = Some(DNS_SUFFIX)] :
        hs \in SeqsUpTo(RenderHosts, MaxHosts),
        dns \in {None} \cup {Some(d) : d \in SeqsUpTo({DNS_OK}, MaxDns)}}

(***************************************************************************)
(* The run of a script.  A run ends at pc = "done" (normal return),        *)
(* "exited" (sys.exit) or "raised" (an uncaught exception, named by exc).  *)
(***************************************************************************)
Init ==
    /\ prog \in {"create-custom-iso", "display-ks-content"}
    /\ pc = IF prog = "create-custom-iso" THEN "ask_pwd" ELSE "d_mnt_exists"
    /\ counter = 0 /\ esxi_root_pwd1 = None /\ esxi_root_pwd2 = None /\ pairs = 0
    /\ openssl_arg = None
    /\ rootw_pwd = None
    /\ json_file = None
    /\ size_bytes = 0 /\ available_space = 0
    /\ iso_exists \in (IF prog = "create-custom-iso" THEN BOOLEAN ELSE {TRUE})
    /\ iso_has_ks \in (IF prog = "create-custom-iso" THEN {FALSE} ELSE BOOLEAN)
    /\ mnt \in {"absent", "empty", "nonempty"}
    /\ mounted = FALSE
    /\ temp_root = FALSE /\ temp_folder = FALSE /\ copied = FALSE /\ patched = FALSE
    /\ ks_file = <<>> /\ ks_state = "none" /\ out_iso = FALSE
    /\ host = 0 /\ md5_chksum = FALSE /\ shown = "none"
    /\ returncode = 0 /\ exc = "" /\ ops = <<>> /\ log = <<>>
    /\ ValidateIdle /\ BuildsIdle /\ PatchIdle

(***************************************************************************)
(* run_subprocess_cmd: the statement reached after a command that returned *)
(* rc, when nxt is the statement after the call.                           *)
(***************************************************************************)
\* the runner without its sys.exit() on a non-zero return code
run_subprocess_cmd_NoExit(rc, nxt) == nxt

run_subprocess_cmd(rc, nxt) == IF rc # 0 THEN "exited" ELSE nxt

\* the captured stdout of "openssl passwd -6 <pwd>": a salted hash, opaque
ENCRYPTED == <<"$", "6", "$", "x", "\n">>

(***************************************************************************)
(* generate_encrypted_root_pwd.                                            *)
(***************************************************************************)
RETRIES == 2

\* counter = 2 and the first two maskpass.askpass calls
AskPassword ==
    /\ pc = "ask_pwd"
    /\ \E p1 \in Passwords, p2 \in Passwords :
          /\ esxi_root_pwd1' = Some(p1)
          /\ esxi_root_pwd2' = Some(p2)
    /\ counter' = RETRIES
    /\ pairs' = pairs + 1
    /\ pc' = "pwd_while"
    /\ UNCHANGED <<prog, openssl_arg, rootw_pwd, json_file, gatevars, fsvars, runvars, othervars>>

\* the loop test without the comparison of the two entries
pwd_while_enters_IgnoresMatch(c, p1, p2) == c # 0

\* while counter and esxi_root_pwd1 != esxi_root_pwd2: one more pair
pwd_while_enters(c, p1, p2) == c # 0 /\ p1 # p2

AskPasswordAgain ==
    /\ pc = "pwd_while"
    /\ pwd_while_enters(counter, esxi_root_pwd1, esxi_root_pwd2)
    /\ counter' = counter - 1
    /\ \E p1 \in Passwords, p2 \in Passwords :
          /\ esxi_root_pwd1' = Some(p1)
          /\ esxi_root_pwd2' = Some(p2)
    /\ pairs' = pairs + 1
    /\ pc' = "pwd_while"
    /\ UNCHANGED <<prog, openssl_arg, rootw_pwd, json_file, gatevars, fsvars, runvars, othervars>>

\* the loop ends; if esxi_root_pwd1 != esxi_root_pwd2: sys.exit()
PasswordCheck ==
    /\ pc = "pwd_while"
    /\ ~pwd_while_enters(counter, esxi_root_pwd1, esxi_root_pwd2)
    /\ IF esxi_root_pwd1 # esxi_root_pwd2
       THEN /\ pc' = "exited"
            /\ log' = Append(log, [level |-> "error", item |-> "password"])
       ELSE /\ pc' = "openssl"
            /\ log' = log
    /\ UNCHANGED <<prog, pwdvars, rootw_pwd, json_file, gatevars, fsvars, othervars,
                   host, md5_chksum, shown, returncode, exc, ops>>

\* run_subprocess_cmd(f"openssl passwd -6 {esxi_root_pwd1}", ...)
PasswordHash ==
    /\ pc = "openssl"
    /\ \E rc \in {0, 1} :
          /\ returncode' = rc
          /\ pc' = run_subprocess_cmd(rc, "pwd_return")
          /\ rootw_pwd' = IF rc = 0 THEN Some(ENCRYPTED) ELSE rootw_pwd
    /\ openssl_arg' = esxi_root_pwd1
    /\ ops' = Append(ops, "openssl")
    /\ UNCHANGED <<prog, counter, esxi_root_pwd1, esxi_root_pwd2, pairs, json_file, gatevars, fsvars, othervars,
                   host, md5_chksum, shown, exc, log>>

\* return cmd_output; the function's locals go out of scope; json.load
LoadJson ==
    /\ pc = "pwd_return"
    /\ counter' = 0 /\ esxi_root_pwd1' = None /\ esxi_root_pwd2' = None /\ pairs' = 0
    /\ openssl_arg' = None
    /\ json_file' \in BuildConfigs
    /\ pc' = "eula"
    /\ UNCHANGED <<prog, rootw_pwd, gatevars, fsvars, runvars, othervars>>

(***************************************************************************)
(* build_custom_image: the five gates.                                     *)
(***************************************************************************)
HashOfBaseImage == SUM_A

eula_accepted(json_data) == Strip(json_data.AcceptEsxiLicenseAgreement) = YES

enough_disk_space(available, required_space) == available >= required_space

\* the gate asking for the size of the image, not for twice the size
validate_disk_space_BaseSizeOnly(size, available) ==
    enough_disk_space(available, size)

validate_disk_space(size, available) == enough_disk_space(available, 2 * size)

validate_iso_chksum(calculated_chksum, chksum) == calculated_chksum = chksum

GateEula ==
    /\ pc = "eula"
    /\ IF ~eula_accepted(json_file)
       THEN /\ pc' = "exited"
            /\ log' = Append(log, [level |-> "error", item |-> "eula"])
       ELSE /\ pc' = "validate_json"
            /\ log' = log
    /\ UNCHANGED <<prog, pwdvars, rootw_pwd, json_file, gatevars, fsvars, othervars,
                   host, md5_chksum, shown, returncode, exc, ops>>

GateValidateJson ==
    /\ pc = "validate_json"
    /\ LET r == validate_json(json_file)
       IN  /\ log' = log \o r.log
           /\ pc' = IF ~r.ret THEN "exited" ELSE "iso_exists"
    /\ UNCHANGED <<prog, pwdvars, rootw_pwd, json_file, gatevars, fsvars, othervars,
                   host, md5_chksum, shown, returncode, exc, ops>>

GateIsoExists ==
    /\ pc = "iso_exists"
    /\ IF ~iso_exists
       THEN /\ pc' = "exited"
            /\ log' = Append(log, [level |-> "error", item |-> "iso_missing"])
       ELSE /\ pc' = "get_file_size"
            /\ log' = log
    /\ UNCHANGED <<prog, pwdvars, rootw_pwd, json_file, gatevars, fsvars, othervars,
                   host, md5_chksum, shown, returncode, exc, ops>>

\* validate_disk_space: get_file_size(file_path) and psutil.disk_usage("./")
GetFileSize ==
    /\ pc = "get_file_size"
    /\ size_bytes' \in 1..MaxIsoSize
    /\ available_space' \in 0..MaxFree
    /\ pc' = "enough_disk_space"
    /\ UNCHANGED <<prog, pwdvars, rootw_pwd, json_file, fsvars, runvars, othervars>>

GateDiskSpace ==
    /\ pc = "enough_disk_space"
    /\ IF ~validate_disk_space(size_bytes, available_space)
       THEN /\ pc' = "exited"
            /\ log' = Append(log, [level |-> "error", item |-> "disk_space"])
            /\ UNCHANGED gatevars
       ELSE /\ pc' = "iso_chksum"
            /\ log' = log
            /\ size_bytes' = 0 /\ available_space' = 0
    /\ UNCHANGED <<prog, pwdvars, rootw_pwd, json_file, fsvars, othervars,
                   host, md5_chksum, shown, returncode, exc, ops>>

GateChecksum ==
    /\ pc = "iso_chksum"
    /\ IF ~validate_iso_chksum(HashOfBaseImage, Strip(json_file.isoMdSum))
       THEN /\ pc' = "exited"
            /\ log' = Append(log, [level |-> "error", item |-> "checksum"])
       ELSE /\ pc' = "mnt_exists"
            /\ log' = log
    /\ UNCHANGED <<prog, pwdvars, rootw_pwd, json_file, gatevars, fsvars, othervars,
                   host, md5_chksum, shown, returncode, exc, ops>>

(***************************************************************************)
(* build_custom_image: folders, mount, copy, unmount.                      *)
(***************************************************************************)
rest == <<prog, pwdvars, rootw_pwd, json_file, gatevars, othervars>>

\* if os.path.exists(mnt_folder): os.rmdir(mnt_folder)
\* (os.rmdir raises OSError on a directory that is not empty or is busy)
RemoveStaleMountPoint(after) ==
    /\ IF mnt = "absent"
       THEN /\ pc' = after
            /\ UNCHANGED <<mnt, ops, exc>>
       ELSE /\ ops' = Append(ops, "rmdir_mnt")
            /\ IF mnt = "empty" /\ ~mounted
               THEN /\ mnt' = "absent"
                    /\ pc' = after
                    /\ exc' = exc
               ELSE /\ pc' = "raised"
                    /\ exc' = "OSError"
                    /\ mnt' = mnt
    /\ UNCHANGED <<rest, iso_exists, iso_has_ks, mounted, temp_root, temp_folder,
                   copied, patched, ks_file, ks_state, out_iso, host, md5_chksum,
                   shown, returncode, log>>

MntExists ==
    /\ pc = "mnt_exists"
    /\ RemoveStaleMountPoint("makedirs_mnt")

\* os.makedirs(mnt_folder)
MakeMountPoint(after) ==
    /\ mnt' = "empty"
    /\ ops' = Append(ops, "makedirs_mnt")
    /\ pc' = after
    /\ UNCHANGED <<rest, iso_exists, iso_has_ks, mounted, temp_root, temp_folder,
                   copied, patched, ks_file, ks_state, out_iso, host, md5_chksum,
                   shown, returncode, exc, log>>

MakedirsMnt ==
    /\ pc = "makedirs_mnt"
    /\ MakeMountPoint("makedirs_temp")

\* os.makedirs(temp_folder), temp_folder = "./temp/" + RANDOM_STRING
MakedirsTemp ==
    /\ pc = "makedirs_temp"
    /\ temp_root' = TRUE
    /\ temp_folder' = TRUE
    /\ ops' = Append(ops, "makedirs_temp")
    /\ pc' = "mount"
    /\ UNCHANGED <<rest, iso_exists, iso_has_ks, mnt, mounted, copied, patched,
                   ks_file, ks_state, out_iso, host, md5_chksum, shown,
                   returncode, exc, log>>

\* run_subprocess_cmd(f"mount -o loop {iso} {mnt_folder}", "Mounting ISO")
MountImage(after) ==
    /\ \E rc \in {0, 1} :
          /\ returncode' = rc
          /\ mounted' = IF rc = 0 THEN TRUE ELSE mounted
          /\ mnt' = IF rc = 0 THEN "nonempty" ELSE mnt
          /\ pc' = run_subprocess_cmd(rc, after)
    /\ ops' = Append(ops, "mount")
    /\ UNCHANGED <<rest, iso_exists, iso_has_ks, temp_root, temp_folder, copied,
                   patched, ks_file, ks_state, out_iso, host, md5_chksum, shown,
                   exc, log>>

Mount ==
    /\ pc = "mount"
    /\ MountImage("cp")

\* run_subprocess_cmd(f"cp -r {mnt_folder}/* {temp_folder}", "Copying the ISO")
Copy ==
    /\ pc = "cp"
    /\ \E rc \in {0, 1} :
          /\ returncode' = rc
          /\ copied' = IF rc = 0 THEN TRUE ELSE copied
          /\ pc' = run_subprocess_cmd(rc, "umount")
    /\ ops' = Append(ops, "cp")
    /\ UNCHANGED <<rest, iso_exists, iso_has_ks, mnt, mounted, temp_root,
                   temp_folder, patched, ks_file, ks_state, out_iso, host,
                   md5_chksum, shown, exc, log>>

\* run_subprocess_cmd(f"umount {mnt_folder}", "Unmounting ISO")
UnmountImage(after) ==
    /\ \E rc \in {0, 1} :
          /\ returncode' = rc
          /\ mounted' = IF rc = 0 THEN FALSE ELSE mounted
          /\ mnt' = IF rc = 0 THEN "empty" ELSE mnt
          /\ pc' = run_subprocess_cmd(rc, after)
    /\ ops' = Append(ops, "umount")
    /\ UNCHANGED <<rest, iso_exists, iso_has_ks, temp_root, temp_folder, copied,
                   patched, ks_file, ks_state, out_iso, host, md5_chksum, shown,
                   exc, log>>

Umount ==
    /\ pc = "umount"
    /\ UnmountImage("rmdir_mnt")

\* os.rmdir(mnt_folder)
RemoveMountPoint(after) ==
    /\ ops' = Append(ops, "rmdir_mnt")
    /\ IF mnt = "empty" /\ ~mounted
       THEN /\ mnt' = "absent"
            /\ pc' = after
            /\ exc' = exc
       ELSE /\ pc' = "raised"
            /\ exc' = "OSError"
            /\ mnt' = mnt
    /\ UNCHANGED <<rest, iso_exists, iso_has_ks, mounted, temp_root, temp_folder,
                   copied, patched, ks_file, ks_state, out_iso, host, md5_chksum,
                   shown, returncode, log>>

\* the build without its os.rmdir(mnt_folder) after the umount
RmdirMnt_Skipped ==
    /\ pc = "rmdir_mnt"
    /\ pc' = "patch_boot"
    /\ UNCHANGED <<rest, fsvars, runvars>>

RmdirMnt ==
    /\ pc = "rmdir_mnt"
    /\ RemoveMountPoint("patch_boot")

\* the six case_insensitive_search_and_replace calls on the two boot.cfg copies
PatchBoot ==
    /\ pc = "patch_boot"
    /\ patched' = TRUE
    /\ ops' = Append(ops, "patch_boot")
    /\ pc' = "ks_open"
    /\ UNCHANGED <<rest, iso_exists, iso_has_ks, mnt, mounted, temp_root,
                   temp_folder, copied, ks_file, ks_state, out_iso, host,
                   md5_chksum, shown, returncode, exc, log>>

(***************************************************************************)
(* build_custom_image: KS.CFG.  The file is the sequence of the chunks     *)
(* written to it; a chunk records the fields its f-string formats.         *)
(***************************************************************************)
\* the writes before the host loop
KsHeader(esxi_root_pwd) ==
    <<[t |-> "vmaccepteula"],
      [t |-> "rootpw", pwd |-> esxi_root_pwd],
      [t |-> "include"],
      [t |-> "reboot"],
      [t |-> "firstboot"],
      [t |-> "firstboot-scripts"],
      [t |-> "pre"]>>

\* network_cmd with the nameserver clause appended in the DHCP form too
network_cmd_NameserverAlways(h, dns, dns_suffix_0) ==
    LET server_mac_adress == Lower(h.macAddress)
        vlan == Strip(h.mgmtVlanId)
        host_name == Strip(h.hostName)
        mgmt_hostname == Join(<<".">>, IF Truthy(dns_suffix_0)
                                       THEN <<host_name, dns_suffix_0.v>>
                                       ELSE <<host_name>>)
        static == [bootproto |-> "static", ip |-> h.mgmtIpv4,
                   netmask |-> h.mgmtNetmask, gateway |-> h.mgmtGateway,
                   vlanid |-> vlan, hostname |-> mgmt_hostname,
                   device |-> server_mac_adress]
        dhcp == [bootproto |-> "dhcp", vlanid |-> vlan, device |-> server_mac_adress]
        base == IF Lower(h.mgmtIpv4) = DHCP_LOWER THEN dhcp ELSE static
    IN  IF Truthy(dns)
        THEN [f \in DOMAIN base \cup {"nameserver"} |->
                 IF f = "nameserver" THEN Strip(Join(<<",">>, dns.v)) ELSE base[f]]
        ELSE base

\* network_cmd of one host
network_cmd(h, dns, dns_suffix_0) ==
    LET server_mac_adress == Lower(h.macAddress)
        vlan == Strip(h.mgmtVlanId)
        host_name == Strip(h.hostName)
        mgmt_hostname == Join(<<".">>, IF Truthy(dns_suffix_0)
                                       THEN <<host_name, dns_suffix_0.v>>
                                       ELSE <<host_name>>)
    IN  IF Lower(h.mgmtIpv4) = DHCP_LOWER
        THEN [bootproto |-> "dhcp", vlanid |-> vlan, device |-> server_mac_adress]
        ELSE IF Truthy(dns)
             THEN [bootproto |-> "static", ip |-> h.mgmtIpv4,
                   netmask |-> h.mgmtNetmask, gateway |-> h.mgmtGateway,
                   vlanid |-> vlan, hostname |-> mgmt_hostname,
                   device |-> server_mac_adress,
                   nameserver |-> Strip(Join(<<",">>, dns.v))]
             ELSE [bootproto |-> "static", ip |-> h.mgmtIpv4,
                   netmask |-> h.mgmtNetmask, gateway |-> h.mgmtGateway,
                   vlanid |-> vlan, hostname |-> mgmt_hostname,
                   device |-> server_mac_adress]

\* the writes of one loop iteration up to the network directive
HostPrologue(h, dns, dns_suffix_0) ==
    <<[t |-> "if", mac |-> Lower(h.macAddress)], [t |-> "then"]>>
    \o (IF Truthy(h.clearPart)
        THEN <<[t |-> "clearpart", arg |-> Strip(h.clearPart.v)]>>
        ELSE <<>>)
    \o <<[t |-> "network", cmd |-> network_cmd(h, dns, dns_suffix_0)]>>

allowed_install_disks == {USB, DISK_LOCAL}

\* the install-disk test accepting every value
install_disk_allowed_Any(install_disk) == TRUE

\* not (install_disk not in allowed_install_disks and not startswith("--"))
install_disk_allowed(install_disk) ==
    install_disk \in allowed_install_disks \/ StartsWith(install_disk, <<"-", "-">>)

disk_commands(install_disk) ==
    IF install_disk = USB
    THEN <<"-", "-", "f", "i", "r", "s", "t", "d", "i", "s", "k", "=", "u", "s", "b",
           " ", "-", "-", "o", "v", "e", "r", "w", "r", "i", "t", "e", "v", "m", "f", "s">>
    ELSE <<"-", "-", "f", "i", "r", "s", "t", "d", "i", "s", "k", "=", "l", "o", "c", "a", "l",
           " ", "-", "-", "o", "v", "e", "r", "w", "r", "i", "t", "e", "v", "m", "f", "s">>

\* the writes of one loop iteration after the install-disk test
HostEpilogue(install_disk) ==
    <<[t |-> "install",
       arg |-> IF install_disk \in {USB, DISK_LOCAL}
               THEN disk_commands(install_disk) ELSE install_disk],
      [t |-> "fi"]>>

\* temp_path = .../KS.CFG; open(temp_path, "w+"); the writes up to "%pre"
KsOpen ==
    /\ pc = "ks_open"
    /\ ks_state' = "open"
    /\ ks_file' = KsHeader(rootw_pwd.v)
    /\ ops' = Append(ops, "open_ks")
    /\ host' = 1
    /\ pc' = IF json_file.hosts = <<>> THEN "ks_close" ELSE "ks_host"
    /\ UNCHANGED <<rest, iso_exists, iso_has_ks, mnt, mounted, temp_root,
                   temp_folder, copied, patched, out_iso, md5_chksum, shown,
                   returncode, exc, log>>

\* one iteration of: for host in json_data["hosts"]
KsHost ==
    /\ pc = "ks_host"
    /\ LET h == json_file.hosts[host]
           install_disk == Strip(h.installDisk)
           prologue == HostPrologue(h, json_file.dns, json_file.dnsSuffix0)
       IN  IF ~install_disk_allowed(install_disk)
           THEN /\ ks_file' = ks_file \o prologue
                /\ pc' = "raised"
                /\ exc' = "ValueError"
                /\ host' = host
           ELSE /\ ks_file' = ks_file \o prologue \o HostEpilogue(install_disk)
                /\ pc' = IF host = Len(json_file.hosts) THEN "ks_close" ELSE "ks_host"
                /\ host' = host + 1
                /\ exc' = exc
    /\ UNCHANGED <<rest, iso_exists, iso_has_ks, mnt, mounted, temp_root,
                   temp_folder, copied, patched, ks_state, out_iso, md5_chksum,
                   shown, returncode, ops, log>>

\* ks_file.close()
KsClose ==
    /\ pc = "ks_close"
    /\ ks_state' = "closed"
    /\ ops' = Append(ops, "close_ks")
    /\ pc' = "mkisofs"
    /\ UNCHANGED <<rest, iso_exists, iso_has_ks, mnt, mounted, temp_root,
                   temp_folder, copied, patched, ks_file, out_iso, host,
                   md5_chksum, shown, returncode, exc, log>>

(***************************************************************************)
(* build_custom_image: authoring, checksum, cleanup.                       *)
(***************************************************************************)
\* run_subprocess_cmd("mkisofs ... -o {iso_file_name} ... {temp_folder}", ...)
Mkisofs ==
    /\ pc = "mkisofs"
    /\ \E rc \in {0, 1} :
          /\ returncode' = rc
          /\ out_iso' = IF rc = 0 THEN TRUE ELSE out_iso
          /\ pc' = run_subprocess_cmd(rc, "md5")
    /\ ops' = Append(ops, "mkisofs")
    /\ UNCHANGED <<rest, iso_exists, iso_has_ks, mnt, mounted, temp_root,
                   temp_folder, copied, patched, ks_file, ks_state, host,
                   md5_chksum, shown, exc, log>>

\* md5_chksum = hashlib.md5(open(iso_file_name, "rb").read()).hexdigest()
Md5 ==
    /\ pc = "md5"
    /\ md5_chksum' = TRUE
    /\ ops' = Append(ops, "md5")
    /\ pc' = "rmtree_temp"
    /\ UNCHANGED <<rest, iso_exists, iso_has_ks, mnt, mounted, temp_root,
                   temp_folder, copied, patched, ks_file, ks_state, out_iso,
                   host, shown, returncode, exc, log>>

\* shutil.rmtree(temp_folder): the copied tree goes, KS.CFG with it
RmtreeTemp ==
    /\ pc = "rmtree_temp"
    /\ temp_folder' = FALSE
    /\ copied' = FALSE
    /\ patched' = FALSE
    /\ ks_file' = <<>>
    /\ ks_state' = "none"
    /\ ops' = Append(ops, "rmtree_temp")
    /\ pc' = "rmtree_scratch"
    /\ UNCHANGED <<rest, iso_exists, iso_has_ks, mnt, mounted, temp_root, out_iso,
                   host, md5_chksum, shown, returncode, exc, log>>

\* shutil.rmtree("./temp")
RmtreeScratch ==
    /\ pc = "rmtree_scratch"
    /\ temp_root' = FALSE
    /\ ops' = Append(ops, "rmtree_scratch")
    /\ pc' = "done"
    /\ UNCHANGED <<rest, iso_exists, iso_has_ks, mnt, mounted, temp_folder, copied,
                   patched, ks_file, ks_state, out_iso, host, md5_chksum, shown,
                   returncode, exc, log>>

(***************************************************************************)
(* display-ks-content.py: display_ks_file.                                 *)
(***************************************************************************)
DMntExists ==
    /\ pc = "d_mnt_exists"
    /\ RemoveStaleMountPoint("d_makedirs_mnt")

DMakedirsMnt ==
    /\ pc = "d_makedirs_mnt"
    /\ MakeMountPoint("d_mount")

DMount ==
    /\ pc = "d_mount"
    /\ MountImage("d_ks_exists")

\* display_ks_file returning right after the error when KS.CFG is absent
DShowKs_ReturnWhenAbsent ==
    /\ pc = "d_ks_exists"
    /\ shown' = IF iso_has_ks THEN "contents" ELSE "error"
    /\ pc' = IF iso_has_ks THEN "d_umount" ELSE "done"
    /\ UNCHANGED <<rest, fsvars, host, md5_chksum, returncode, exc, ops, log>>

\* if os.path.exists(KS_file): log the contents, else: log an error
DShowKs ==
    /\ pc = "d_ks_exists"
    /\ shown' = IF iso_has_ks THEN "contents" ELSE "error"
    /\ pc' = "d_umount"
    /\ UNCHANGED <<rest, fsvars, host, md5_chksum, returncode, exc, ops, log>>

DUmount ==
    /\ pc = "d_umount"
    /\ UnmountImage("d_rmdir_mnt")

DRmdirMnt ==
    /\ pc = "d_rmdir_mnt"
    /\ RemoveMountPoint("done")

(***************************************************************************)
(* The specification of one run of either script.                          *)
(***************************************************************************)
Gates ==
    \/ GateEula \/ GateValidateJson \/ GateIsoExists
    \/ GetFileSize \/ GateDiskSpace \/ GateChecksum

Password ==
    \/ AskPassword \/ AskPasswordAgain \/ PasswordCheck \/ PasswordHash \/ LoadJson

MountAndCopy ==
    \/ MntExists \/ MakedirsMnt \/ MakedirsTemp \/ Mount \/ Copy \/ Umount
    \/ RmdirMnt \/ PatchBoot

Kickstart == KsOpen \/ KsHost \/ KsClose

Authoring == Mkisofs \/ Md5 \/ RmtreeTemp \/ RmtreeScratch

Display == DMntExists \/ DMakedirsMnt \/ DMount \/ DShowKs \/ DUmount \/ DRmdirMnt

Next == Password \/ Gates \/ MountAndCopy \/ Kickstart \/ Authoring \/ Display

Spec == Init /\ [][Next]_vars

(***************************************************************************)
(* SpecRender: the rendering loop on its own, started where a build that   *)
(* found no stale mount point stands after patching the boot.cfg copies.   *)
(***************************************************************************)
InitRender ==
    /\ prog = "create-custom-iso"
    /\ pc = "ks_open"
    /\ counter = 0 /\ esxi_root_pwd1 = None /\ esxi_root_pwd2 = None /\ pairs = 0
    /\ openssl_arg = None
    /\ rootw_pwd = Some(ENCRYPTED)
    /\ json_file \in RenderConfigs
    /\ size_bytes = 0 /\ available_space = 0
    /\ iso_exists = TRUE /\ iso_has_ks = FALSE
    /\ mnt = "absent" /\ mounted = FALSE
    /\ temp_root = TRUE /\ temp_folder = TRUE /\ copied = TRUE /\ patched = TRUE
    /\ ks_file = <<>> /\ ks_state = "none" /\ out_iso = FALSE
    /\ host = 0 /\ md5_chksum = FALSE /\ shown = "none"
    /\ returncode = 0 /\ exc = ""
    /\ ops = <<"openssl", "makedirs_mnt", "makedirs_temp", "mount", "cp",
               "umount", "rmdir_mnt", "patch_boot">>
    /\ log = <<[level |-> "info", item |-> "summary"]>>
    /\ ValidateIdle /\ BuildsIdle /\ PatchIdle

NextRender == KsOpen \/ KsHost \/ KsClose

SpecRender == InitRender /\ [][NextRender]_vars

(***************************************************************************)
(* Claims about the runs of the two scripts.                               *)
(***************************************************************************)
Ended == pc \in {"done", "exited", "raised"}
Has(op) == \E k \in 1..Len(ops) : ops[k] = op
LastOp == IF ops = <<>> THEN "" ELSE ops[Len(ops)]

\* what build_custom_image does past its gates
BuildOps ==
    {"rmdir_mnt", "makedirs_mnt", "makedirs_temp", "mount", "cp", "umount",
     "patch_boot", "open_ks", "close_ks", "mkisofs", "md5", "rmtree_temp",
     "rmtree_scratch"}

NoBuildMutation ==
    /\ \A k \in 1..Len(ops) : ops[k] \notin BuildOps
    /\ ~mounted /\ ~temp_root /\ ~temp_folder /\ ~copied /\ ~out_iso
    /\ ks_state = "none" /\ ks_file = <<>>

\* a gate of build_custom_image is at hand and its condition fails
GateFails ==
    \/ pc = "eula" /\ Strip(json_file.AcceptEsxiLicenseAgreement) # YES
    \/ pc = "validate_json" /\ ~validate_json(json_file).ret
    \/ pc = "iso_exists" /\ ~iso_exists
    \/ pc = "enough_disk_space" /\ available_space < 2 * size_bytes
    \/ pc = "iso_chksum" /\ HashOfBaseImage # Strip(json_file.isoMdSum)

\* C1: whenever one of the five input gates of build_custom_image fails (EULA,
\* validate_json, base image missing, free space below twice the image size,
\* MD5 mismatch) the process terminates there, before any mutation of the
\* build: nothing is created, mounted or written, and a build that has mutated
\* anything has an accepted EULA, a valid document, an existing base image
\* and a matching checksum.
C1_GateFailureBeforeMutation ==
    /\ [][GateFails => (pc' = "exited" /\ NoBuildMutation')]_vars
    /\ [][pc # "exited"]_vars
    /\ [](prog = "create-custom-iso" /\ ~NoBuildMutation =>
             /\ Strip(json_file.AcceptEsxiLicenseAgreement) = YES
             /\ validate_json(json_file).ret
             /\ iso_exists
             /\ HashOfBaseImage = Strip(json_file.isoMdSum))

C1_Witness ==
    /\ pc = "exited"
    /\ log # <<>> /\ log[Len(log)].item = "disk_space"
    /\ size_bytes <= available_space /\ available_space < 2 * size_bytes
    /\ NoBuildMutation

Commands == {"openssl", "mount", "cp", "umount", "mkisofs"}

\* the statement after each command of the two scripts
AfterCommand(cmd) ==
    CASE cmd = "openssl" -> "pwd_return"
      [] cmd = "mount" -> IF prog = "create-custom-iso" THEN "cp" ELSE "d_ks_exists"
      [] cmd = "cp" -> "umount"
      [] cmd = "umount" -> IF prog = "create-custom-iso" THEN "rmdir_mnt" ELSE "d_rmdir_mnt"
      [] cmd = "mkisofs" -> "md5"

RanCommand == Len(ops') = Len(ops) + 1 /\ ops'[Len(ops')] \in Commands

\* C6: when an external command run by run_subprocess_cmd exits non-zero the
\* process terminates at that call, no later step happens and the file system
\* stays as the failed step found it (no rollback); on exit code zero the
\* statement after the call runs next.
C6_CommandFailureIsFatal ==
    /\ [](returncode # 0 => pc = "exited")
    /\ [][pc # "exited"]_vars
    /\ [][RanCommand =>
            IF returncode' # 0
            THEN pc' = "exited" /\ UNCHANGED fsvars
            ELSE pc' = AfterCommand(ops'[Len(ops')])]_vars

C6_Witness ==
    /\ pc = "exited"
    /\ returncode # 0
    /\ LastOp = "cp"
    /\ mounted /\ mnt = "nonempty" /\ temp_folder /\ ~out_iso

\* C8 as stated: every run of display_ks_file that creates the mount point
\* ends, however it ends, with the image unmounted and the mount point
\* removed; the contents are printed exactly when KS.CFG is present and an
\* error is logged exactly when it is absent.
C8_AlwaysCleansUp ==
    (prog = "display-ks-content" /\ Ended /\ Has("makedirs_mnt")) =>
        /\ ~mounted /\ mnt = "absent"
        /\ (shown = "contents") <=> iso_has_ks
        /\ (shown = "error") <=> ~iso_has_ks

\* C8, amended: a run of display_ks_file that returns normally ends with the
\* image unmounted and the mount point removed whether or not KS.CFG is
\* present; a run that a failing mount or umount command terminates leaves
\* the mount point (and, for umount, the mounted image) in place.  Once the
\* mount has succeeded the contents are printed exactly when KS.CFG is
\* present and an error is logged exactly when it is absent.
C8_CleansUpOnNormalReturn ==
    prog = "display-ks-content" =>
        /\ pc = "done" => ~mounted /\ mnt = "absent"
        /\ (pc = "exited" /\ LastOp = "mount") =>
              ~mounted /\ mnt = "empty" /\ shown = "none"
        /\ (pc = "exited" /\ LastOp = "umount") => mounted /\ mnt = "nonempty"
        /\ pc \in {"d_umount", "d_rmdir_mnt", "done"} \/ LastOp = "umount" =>
              /\ (shown = "contents") <=> iso_has_ks
              /\ (shown = "error") <=> ~iso_has_ks

C8_Witness ==
    /\ prog = "display-ks-content"
    /\ pc = "done"
    /\ ~iso_has_ks /\ shown = "error"
    /\ Has("mount") /\ LastOp = "rmdir_mnt"

\* C9: generate_encrypted_root_pwd asks for at most 3 password/confirmation
\* pairs, asks for another pair only after a pair that mismatched, runs the
\* password-hash command only with a pair that matched, and aborts without
\* running it when the third pair mismatches.
C9_PasswordRetries ==
    /\ [](pairs <= RETRIES + 1)
    /\ [](openssl_arg # None =>
             openssl_arg = esxi_root_pwd1 /\ esxi_root_pwd1 = esxi_root_pwd2)
    /\ [][(pairs' > pairs /\ pairs >= 1) => esxi_root_pwd1 # esxi_root_pwd2]_vars
    /\ [][(pc = "pwd_while" /\ esxi_root_pwd1 = esxi_root_pwd2) => pc' = "openssl"]_vars
    /\ [][(pc = "pwd_while" /\ pairs = RETRIES + 1 /\ esxi_root_pwd1 # esxi_root_pwd2)
            => (pc' = "exited" /\ ops' = ops /\ openssl_arg' = None)]_vars

C9_Witness ==
    /\ pc = "exited"
    /\ pairs = 3
    /\ esxi_root_pwd1 # esxi_root_pwd2
    /\ openssl_arg = None /\ ~Has("openssl")

(***************************************************************************)
(* Claims about the rendering of KS.CFG.                                   *)
(***************************************************************************)
CountT(t) == Cardinality({k \in 1..Len(ks_file) : ks_file[k].t = t})

\* the claim's words for an installDisk that is not allowed
DiskRejected(h) ==
    LET d == Strip(h.installDisk)
    IN  d # USB /\ d # DISK_LOCAL /\ ~(Len(d) >= 2 /\ d[1] = "-" /\ d[2] = "-")

\* C5 as stated: a host whose installDisk is not allowed raises a distinct
\* error that aborts just that host's render: nothing of that host's block is
\* written and the blocks of the other hosts are not affected.
C5_AbortsOnlyThatHost ==
    (pc = "raised" /\ exc = "ValueError") =>
        /\ CountT("if") = CountT("fi")
        /\ CountT("fi") = Cardinality({i \in 1..Len(json_file.hosts) :
                                          ~DiskRejected(json_file.hosts[i])})

Kinds(chunks) == [k \in 1..Len(chunks) |-> chunks[k].t]

\* C5, amended: a host whose installDisk is not allowed raises ValueError
\* (not the logged-error-and-exit path), which nothing catches, so the run
\* ends there: the host's MAC test, its clearpart directive if any and its
\* network directive have been written to the still open kickstart file, its
\* install directive and "fi" have not; the blocks of the earlier hosts are
\* complete, no later host is rendered and no image is authored.
C5_ValueErrorEndsTheRun ==
    /\ [][(pc = "ks_host" /\ DiskRejected(json_file.hosts[host])) =>
            /\ pc' = "raised" /\ exc' = "ValueError" /\ log' = log
            /\ Len(ks_file') > Len(ks_file)
            /\ SubSeq(ks_file', 1, Len(ks_file)) = ks_file
            /\ Kinds(SubSeq(ks_file', Len(ks_file) + 1, Len(ks_file'))) \in
                 {<<"if", "then", "network">>, <<"if", "then", "clearpart", "network">>}
          ]_vars
    /\ [][pc # "raised"]_vars
    /\ [](pc = "raised" =>
             /\ CountT("if") = host /\ CountT("fi") = host - 1
             /\ CountT("install") = host - 1
             /\ ks_state = "open" /\ ~out_iso /\ ~Has("mkisofs"))

C5_Witness ==
    /\ pc = "raised" /\ exc = "ValueError"
    /\ Len(json_file.hosts) = 2 /\ host = 1
    /\ ~DiskRejected(json_file.hosts[2])
    /\ CountT("clearpart") = 1 /\ CountT("network") = 1 /\ CountT("fi") = 0

HeaderLen == 7

\* a clearPart value is given: the field is present and not empty
ClearPartSpecified(h) == h.clearPart # None /\ h.clearPart.v # <<>>

BlockKinds(h) ==
    <<"if", "then">>
    \o (IF ClearPartSpecified(h) THEN <<"clearpart">> ELSE <<>>)
    \o <<"network", "install", "fi">>

RECURSIVE BlockStart(_, _)
BlockStart(hosts, i) ==
    IF i = 1 THEN HeaderLen + 1
    ELSE BlockStart(hosts, i - 1) + Len(BlockKinds(hosts[i - 1]))

\* C10: in a completely rendered kickstart file the %pre section holds exactly
\* one conditional block per host, in input order; a block is the MAC test,
\* the clearpart directive iff clearPart is specified, one network directive,
\* one install directive and the closing "fi"; the network directive is the
\* DHCP form iff mgmtIpv4 is "dhcp" in any letter case and carries a
\* nameserver clause iff the host is static and the DNS list is non-empty.
C10_OneBlockPerHost ==
    ks_state = "closed" =>
        LET hosts == json_file.hosts
            n == Len(hosts)
        IN  /\ ks_file[HeaderLen].t = "pre"
            /\ \A k \in 1..(HeaderLen - 1) : ks_file[k].t # "pre"
            /\ Len(ks_file) = BlockStart(hosts, n + 1) - 1
            /\ \A i \in 1..n :
                  LET h == hosts[i]
                      from == BlockStart(hosts, i)
                      block == SubSeq(ks_file, from, BlockStart(hosts, i + 1) - 1)
                      net == block[Len(block) - 2].cmd
                      dhcp == Lower(h.mgmtIpv4) = DHCP_LOWER
                  IN  /\ Kinds(block) = BlockKinds(h)
                      /\ block[1].mac = Lower(h.macAddress)
                      /\ (net.bootproto = "dhcp") <=> dhcp
                      /\ (net.bootproto = "static") <=> ~dhcp
                      /\ net.device = Lower(h.macAddress)
                      /\ ("nameserver" \in DOMAIN net) <=>
                            (~dhcp /\ json_file.dns # None /\ json_file.dns.v # <<>>)

C10_Witness ==
    /\ ks_state = "closed"
    /\ Len(json_file.hosts) = 2
    /\ Lower(json_file.hosts[1].mgmtIpv4) = DHCP_LOWER
    /\ json_file.hosts[2].mgmtIpv4 = IP_OK
    /\ json_file.hosts[2].clearPart = Some(CLEAR_ALL)
    /\ json_file.dns = Some(<<DNS_OK>>)
    /\ CountT("fi") = 2 /\ CountT("clearpart") = 1

(***************************************************************************)
(* SpecConc: two builds side by side, from the folder creation of          *)
(* build_custom_image on, in one working directory or in two.  Each file   *)
(* system call and each command is one step.                               *)
(***************************************************************************)
Builds == {1, 2}
Dirs == {1, 2}
RandomStrings == {"A", "B"}

\* the directory in which constants.ESXI_CDROM_MOUNT_DIR names the mount point
mnt_dir_of(b) == cwd[b]

\* "./temp" taken as one absolute folder shared by every working directory
temp_dir_of_Shared(b) == 1

\* the directory in which "./temp" is resolved
temp_dir_of(b) == cwd[b]

scriptvars == <<prog, pc, pwdvars, rootw_pwd, json_file, gatevars, fsvars, runvars, vjvars,
                patchvars>>

InitConc ==
    /\ ScriptsIdle /\ json_file = None /\ openssl_arg = None
    /\ ValidateIdle /\ PatchIdle
    /\ cwd \in {[b \in Builds |-> 1], [b \in Builds |-> b]}
    /\ c_pc = [b \in Builds |-> "mnt_exists"]
    /\ c_name \in [Builds -> RandomStrings]
    /\ c_out = [b \in Builds |-> FALSE]
    /\ c_mnt = [d \in Dirs |-> FALSE]
    /\ c_mounts = [d \in Dirs |-> 0]
    /\ c_owner = [d \in Dirs |-> 0]
    /\ c_temp = [d \in Dirs |-> FALSE]
    /\ c_trees = [d \in Dirs |-> {}]

Goto(b, to) == c_pc' = [c_pc EXCEPT ![b] = to]

\* if os.path.exists(mnt_folder):
CMntExists(b) ==
    /\ c_pc[b] = "mnt_exists"
    /\ Goto(b, IF c_mnt[mnt_dir_of(b)] THEN "rmdir_stale" ELSE "makedirs_mnt")
    /\ UNCHANGED <<scriptvars, cwd, c_name, c_mnt, c_mounts, c_owner, c_temp, c_trees, c_out>>

\* os.rmdir(mnt_folder): raises when the folder is gone or busy
CRmdir(b, at, to) ==
    /\ c_pc[b] = at
    /\ LET d == mnt_dir_of(b)
       IN  IF c_mnt[d] /\ c_mounts[d] = 0
           THEN /\ c_mnt' = [c_mnt EXCEPT ![d] = FALSE]
                /\ c_owner' = [c_owner EXCEPT ![d] = 0]
                /\ Goto(b, to)
           ELSE /\ Goto(b, "raised")
                /\ UNCHANGED <<c_mnt, c_owner>>
    /\ UNCHANGED <<scriptvars, cwd, c_name, c_mounts, c_temp, c_trees, c_out>>

CRmdirStale(b) == CRmdir(b, "rmdir_stale", "makedirs_mnt")

\* os.makedirs(mnt_folder): raises FileExistsError when the folder exists
CMakedirsMnt(b) ==
    /\ c_pc[b] = "makedirs_mnt"
    /\ LET d == mnt_dir_of(b)
       IN  IF ~c_mnt[d]
           THEN /\ c_mnt' = [c_mnt EXCEPT ![d] = TRUE]
                /\ c_owner' = [c_owner EXCEPT ![d] = b]
                /\ Goto(b, "makedirs_temp")
           ELSE /\ Goto(b, "raised")
                /\ UNCHANGED <<c_mnt, c_owner>>
    /\ UNCHANGED <<scriptvars, cwd, c_name, c_mounts, c_temp, c_trees, c_out>>

\* os.makedirs(temp_folder): raises FileExistsError when the folder exists
CMakedirsTemp(b) ==
    /\ c_pc[b] = "makedirs_temp"
    /\ LET d == temp_dir_of(b)
       IN  IF c_name[b] \notin c_trees[d]
           THEN /\ c_temp' = [c_temp EXCEPT ![d] = TRUE]
                /\ c_trees' = [c_trees EXCEPT ![d] = @ \cup {c_name[b]}]
                /\ Goto(b, "mount")
           ELSE /\ Goto(b, "raised")
                /\ UNCHANGED <<c_temp, c_trees>>
    /\ UNCHANGED <<scriptvars, cwd, c_name, c_mnt, c_mounts, c_owner, c_out>>

\* mount -o loop: cannot succeed without the mount point
CMount(b) ==
    /\ c_pc[b] = "mount"
    /\ LET d == mnt_dir_of(b)
       IN  \E rc \in {0, 1} :
              /\ rc = 0 => c_mnt[d]
              /\ c_mounts' = IF rc = 0 THEN [c_mounts EXCEPT ![d] = @ + 1] ELSE c_mounts
              /\ Goto(b, run_subprocess_cmd(rc, "cp"))
    /\ UNCHANGED <<scriptvars, cwd, c_name, c_mnt, c_owner, c_temp, c_trees, c_out>>

\* cp -r mnt_folder/* temp_folder: cannot succeed without an image mounted
\* and without the temp folder
CCopy(b) ==
    /\ c_pc[b] = "cp"
    /\ \E rc \in {0, 1} :
          /\ rc = 0 => /\ c_mounts[mnt_dir_of(b)] > 0
                       /\ c_name[b] \in c_trees[temp_dir_of(b)]
          /\ Goto(b, run_subprocess_cmd(rc, "umount"))
    /\ UNCHANGED <<scriptvars, cwd, c_name, c_mnt, c_mounts, c_owner, c_temp, c_trees, c_out>>

\* umount mnt_folder: cannot succeed when nothing is mounted there
CUmount(b) ==
    /\ c_pc[b] = "umount"
    /\ LET d == mnt_dir_of(b)
       IN  \E rc \in {0, 1} :
              /\ rc = 0 => c_mounts[d] > 0
              /\ c_mounts' = IF rc = 0 THEN [c_mounts EXCEPT ![d] = @ - 1] ELSE c_mounts
              /\ Goto(b, run_subprocess_cmd(rc, "rmdir_mnt"))
    /\ UNCHANGED <<scriptvars, cwd, c_name, c_mnt, c_owner, c_temp, c_trees, c_out>>

CRmdirMnt(b) == CRmdir(b, "rmdir_mnt", "patch_boot")

\* the boot.cfg patches, then KS.CFG: open() raises when the tree is gone
CPatchAndRender(b) ==
    /\ c_pc[b] \in {"patch_boot", "ks_open"}
    /\ IF c_name[b] \in c_trees[temp_dir_of(b)]
       THEN Goto(b, IF c_pc[b] = "patch_boot" THEN "ks_open" ELSE "mkisofs")
       ELSE Goto(b, "raised")
    /\ UNCHANGED <<scriptvars, cwd, c_name, c_mnt, c_mounts, c_owner, c_temp, c_trees, c_out>>

\* mkisofs ... temp_folder: cannot succeed without the tree
CMkisofs(b) ==
    /\ c_pc[b] = "mkisofs"
    /\ \E rc \in {0, 1} :
          /\ rc = 0 => c_name[b] \in c_trees[temp_dir_of(b)]
          /\ c_out' = IF rc = 0 THEN [c_out EXCEPT ![b] = TRUE] ELSE c_out
          /\ Goto(b, run_subprocess_cmd(rc, "rmtree_temp"))
    /\ UNCHANGED <<scriptvars, cwd, c_name, c_mnt, c_mounts, c_owner, c_temp, c_trees>>

\* shutil.rmtree(temp_folder): raises when the folder is gone
CRmtreeTemp(b) ==
    /\ c_pc[b] = "rmtree_temp"
    /\ LET d == temp_dir_of(b)
       IN  IF c_name[b] \in c_trees[d]
           THEN /\ c_trees' = [c_trees EXCEPT ![d] = @ \ {c_name[b]}]
                /\ Goto(b, "rmtree_scratch")
           ELSE /\ Goto(b, "raised")
                /\ UNCHANGED c_trees
    /\ UNCHANGED <<scriptvars, cwd, c_name, c_mnt, c_mounts, c_owner, c_temp, c_out>>

\* shutil.rmtree("./temp"): removes every folder under it
CRmtreeScratch(b) ==
    /\ c_pc[b] = "rmtree_scratch"
    /\ LET d == temp_dir_of(b)
       IN  IF c_temp[d]
           THEN /\ c_temp' = [c_temp EXCEPT ![d] = FALSE]
                /\ c_trees' = [c_trees EXCEPT ![d] = {}]
                /\ Goto(b, "done")
           ELSE /\ Goto(b, "raised")
                /\ UNCHANGED <<c_temp, c_trees>>
    /\ UNCHANGED <<scriptvars, cwd, c_name, c_mnt, c_mounts, c_owner, c_out>>

NextConc ==
    \E b \in Builds :
        \/ CMntExists(b) \/ CRmdirStale(b) \/ CMakedirsMnt(b) \/ CMakedirsTemp(b)
        \/ CMount(b) \/ CCopy(b) \/ CUmount(b) \/ CRmdirMnt(b)
        \/ CPatchAndRender(b) \/ CMkisofs(b) \/ CRmtreeTemp(b) \/ CRmtreeScratch(b)

SpecConc == InitConc /\ [][NextConc]_vars

(***************************************************************************)
(* Claim about builds side by side.                                        *)
(***************************************************************************)
\* build b made the mount point and has not yet removed it
UsesMountPoint(b) == c_pc[b] \in {"makedirs_temp", "mount", "cp", "umount", "rmdir_mnt"}

\* build b made its working tree and has not yet authored its image
NeedsTree(b) ==
    c_pc[b] \in {"mount", "cp", "umount", "rmdir_mnt", "patch_boot", "ks_open", "mkisofs"}

\* another build removed or re-created the mount point build b is using
MountPointTaken(b) == UsesMountPoint(b) /\ c_owner[mnt_dir_of(b)] # b

\* build b's working tree was deleted before b authored its image
TreeDeleted(b) == NeedsTree(b) /\ c_name[b] \notin c_trees[temp_dir_of(b)]

SameDirectory == \A a \in Builds, b \in Builds : cwd[a] = cwd[b]

\* C7: with distinct working directories no build has its mount point removed
\* or re-created by the other, and none has its working tree deleted before
\* it authored its image; in one shared working directory both happen (the
\* witness).
C7_DistinctDirectoriesDoNotInterfere ==
    ~SameDirectory => \A b \in Builds : ~MountPointTaken(b) /\ ~TreeDeleted(b)

C7_Witness ==
    /\ SameDirectory
    /\ \E a \in Builds, b \in Builds :
          /\ a # b
          /\ c_name[a] # c_name[b]
          /\ c_pc[a] = "done" /\ c_out[a]
          /\ MountPointTaken(b) /\ TreeDeleted(b)

(***************************************************************************)
(* Claim about the order of the steps of a build.                          *)
(***************************************************************************)
\* the step just taken executed op
Did(op) == Len(ops') = Len(ops) + 1 /\ ops'[Len(ops')] = op

IsBuildOp(op) == op \in BuildOps

\* the calls of a whole build past its gates, in the order of the code
StepsOfBuild ==
    <<"makedirs_mnt", "makedirs_temp", "mount", "cp", "umount", "rmdir_mnt",
      "patch_boot", "open_ks", "close_ks", "mkisofs", "md5", "rmtree_temp",
      "rmtree_scratch">>

\* KS.CFG holds the header and one whole block per host
KsFullyWritten ==
    /\ Len(ks_file) >= HeaderLen
    /\ CountT("fi") = Len(json_file.hosts)
    /\ ks_file # <<>> /\ (json_file.hosts # <<>> => ks_file[Len(ks_file)].t = "fi")

Building == prog = "create-custom-iso"

\* C11: in every build that runs to completion the steps happen in the stated
\* order and leave a clean end state: the image is mounted when it is copied;
\* it is unmounted and the mount point removed when the boot configuration is
\* patched; KS.CFG is fully written and closed when mkisofs runs; the checksum
\* is computed on the authored image; and at the end nothing is mounted, the
\* mount point, the working tree and "./temp" are gone and the output image
\* exists.
C11_StepsInOrder ==
    /\ [][Building /\ Did("cp") => mounted /\ mnt = "nonempty" /\ temp_folder]_vars
    /\ [][Building /\ Did("patch_boot") =>
            ~mounted /\ mnt = "absent" /\ copied /\ Has("umount")]_vars
    /\ [][Building /\ Did("mkisofs") =>
            patched /\ ks_state = "closed" /\ KsFullyWritten]_vars
    /\ [][Building /\ Did("md5") => out_iso /\ LastOp = "mkisofs" /\ returncode = 0]_vars
    /\ [](Building /\ pc = "done" =>
            /\ SelectSeq(ops, IsBuildOp) \in {StepsOfBuild, <<"rmdir_mnt">> \o StepsOfBuild}
            /\ ~mounted /\ mnt = "absent" /\ ~temp_folder /\ ~temp_root
            /\ out_iso /\ md5_chksum)

C11_Witness ==
    /\ Building /\ pc = "done"
    /\ json_file.hosts # <<>>
    /\ SelectSeq(ops, IsBuildOp) = <<"rmdir_mnt">> \o StepsOfBuild
    /\ out_iso /\ ~temp_root /\ mnt = "absent"

(***************************************************************************)
(* SpecPatch: the six case_insensitive_search_and_replace calls of         *)
(* build_custom_image on the two boot.cfg copies.  A file is the sequence  *)
(* of its characters.                                                      *)
(***************************************************************************)
\* pattern.sub(replace_word, file_contents) for
\* pattern = re.compile(re.escape(search_word), re.IGNORECASE): the matches
\* are taken left to right, without overlap, and the text put in is not
\* searched again
RECURSIVE PatternSub(_, _, _)
PatternSub(search_word, replace_word, file_contents) ==
    IF file_contents = <<>> \/ search_word = <<>> THEN file_contents
    ELSE IF /\ Len(file_contents) >= Len(search_word)
            /\ Lower(SubSeq(file_contents, 1, Len(search_word))) = Lower(search_word)
         THEN replace_word \o
              PatternSub(search_word, replace_word,
                         SubSeq(file_contents, Len(search_word) + 1, Len(file_contents)))
         ELSE <<Head(file_contents)>> \o
              PatternSub(search_word, replace_word, Tail(file_contents))

\* the contents written back to file_path
case_insensitive_search_and_replace(file_contents, search_word, replace_word) ==
    PatternSub(search_word, replace_word, file_contents)

\* the search words and the replace word of the calls
RUNWEASEL ==
    <<"k", "e", "r", "n", "e", "l", "o", "p", "t", "=", "r", "u", "n",
      "w", "e", "a", "s", "e", "l">>

CDROMBOOT_RUNWEASEL ==
    <<"k", "e", "r", "n", "e", "l", "o", "p", "t", "=", "c", "d", "r",
      "o", "m", "B", "o", "o", "t", " ", "r", "u", "n", "w", "e", "a",
      "s", "e", "l">>

RUNWEASEL_CDROMBOOT ==
    <<"k", "e", "r", "n", "e", "l", "o", "p", "t", "=", "r", "u", "n",
      "w", "e", "a", "s", "e", "l", " ", "c", "d", "r", "o", "m", "B",
      "o", "o", "t">>

RUNWEASEL_KS ==
    <<"k", "e", "r", "n", "e", "l", "o", "p", "t", "=", "r", "u", "n",
      "w", "e", "a", "s", "e", "l", " ", "k", "s", "=", "c", "d", "r",
      "o", "m", ":", "/", "K", "S", ".", "C", "F", "G">>

\* the calls, in the order of the code
PatchCalls ==
    <<[file |-> "boot.cfg", search_word |-> RUNWEASEL, replace_word |-> RUNWEASEL_KS],
      [file |-> "efi/boot/boot.cfg", search_word |-> RUNWEASEL, replace_word |-> RUNWEASEL_KS],
      [file |-> "boot.cfg", search_word |-> CDROMBOOT_RUNWEASEL, replace_word |-> RUNWEASEL_KS],
      [file |-> "efi/boot/boot.cfg", search_word |-> CDROMBOOT_RUNWEASEL,
       replace_word |-> RUNWEASEL_KS],
      [file |-> "boot.cfg", search_word |-> RUNWEASEL_CDROMBOOT, replace_word |-> RUNWEASEL_KS],
      [file |-> "efi/boot/boot.cfg", search_word |-> RUNWEASEL_CDROMBOOT,
       replace_word |-> RUNWEASEL_KS]>>

BootFiles == {"boot.cfg", "efi/boot/boot.cfg"}

\* kernel option lines a base image may hold: the three variants as the code
\* spells them, in capitals and in small letters, and one it does not handle
RUNWEASEL_UPPER ==
    <<"K", "E", "R", "N", "E", "L", "O", "P", "T", "=", "R", "U", "N",
      "W", "E", "A", "S", "E", "L">>

CDROMBOOT_RUNWEASEL_UPPER ==
    <<"K", "E", "R", "N", "E", "L", "O", "P", "T", "=", "C", "D", "R",
      "O", "M", "B", "O", "O", "T", " ", "R", "U", "N", "W", "E", "A",
      "S", "E", "L">>

CDROMBOOT_RUNWEASEL_LOWER ==
    <<"k", "e", "r", "n", "e", "l", "o", "p", "t", "=", "c", "d", "r",
      "o", "m", "b", "o", "o", "t", " ", "r", "u", "n", "w", "e", "a",
      "s", "e", "l">>

RUNWEASEL_CDROMBOOT_UPPER ==
    <<"K", "E", "R", "N", "E", "L", "O", "P", "T", "=", "R", "U", "N",
      "W", "E", "A", "S", "E", "L", " ", "C", "D", "R", "O", "M", "B",
      "O", "O", "T">>

RUNWEASEL_CDROMBOOT_LOWER ==
    <<"k", "e", "r", "n", "e", "l", "o", "p", "t", "=", "r", "u", "n",
      "w", "e", "a", "s", "e", "l", " ", "c", "d", "r", "o", "m", "b",
      "o", "o", "t">>

KERNELOPT_OTHER ==
    <<"k", "e", "r", "n", "e", "l", "o", "p", "t", "=", "d", "e", "b",
      "u", "g">>

KERNEL_LINE ==
    <<"k", "e", "r", "n", "e", "l", "=", "/", "b", ".", "b", "0", "0">>

BUILD_LINE ==
    <<"b", "u", "i", "l", "d", "=", "8">>

KernelOptLines ==
    {RUNWEASEL, RUNWEASEL_UPPER,
     CDROMBOOT_RUNWEASEL, CDROMBOOT_RUNWEASEL_UPPER, CDROMBOOT_RUNWEASEL_LOWER,
     RUNWEASEL_CDROMBOOT, RUNWEASEL_CDROMBOOT_UPPER, RUNWEASEL_CDROMBOOT_LOWER,
     KERNELOPT_OTHER}

\* a boot.cfg: the kernel line, the kernel option line, the build line
BootCfg(kernelopt) == Join(<<"\n">>, <<KERNEL_LINE, kernelopt, BUILD_LINE, <<>>>>)

InitPatch ==
    /\ ScriptsIdle /\ json_file = None
    /\ ValidateIdle /\ BuildsIdle
    /\ boot_in \in [BootFiles -> {BootCfg(l) : l \in KernelOptLines}]
    /\ boot_cfg = boot_in
    /\ p_pc = 0

\* the next case_insensitive_search_and_replace call
ReplaceCall ==
    /\ p_pc < Len(PatchCalls)
    /\ LET c == PatchCalls[p_pc + 1]
       IN  boot_cfg' =
             [boot_cfg EXCEPT ![c.file] =
                case_insensitive_search_and_replace(@, c.search_word, c.replace_word)]
    /\ p_pc' = p_pc + 1
    /\ UNCHANGED <<prog, pc, pwdvars, rootw_pwd, json_file, gatevars, fsvars, runvars,
                   vjvars, concvars, boot_in>>

NextPatch == ReplaceCall

SpecPatch == InitPatch /\ [][NextPatch]_vars

(***************************************************************************)
(* Claim about the patched kernel option line.                             *)
(***************************************************************************)
\* the kernel option line of a boot.cfg
KernelOptLine(file_contents) == Split(file_contents, "\n")[2]

HandledVariants == {RUNWEASEL, CDROMBOOT_RUNWEASEL, RUNWEASEL_CDROMBOOT}

\* the line is one of the three variants, in any letter case
Handled(line) == \E v \in HandledVariants : Lower(line) = Lower(v)

AllCallsMade == p_pc = Len(PatchCalls)

\* C12 as stated: for a boot.cfg whose kernel option line is any of the three
\* handled variants, in any letter case, after the six replacements the line
\* is exactly "kernelopt=runweasel ks=cdrom:/KS.CFG", in the legacy and in the
\* EFI copy.
C12_PatchedLineIsExact ==
    AllCallsMade =>
        \A f \in BootFiles :
            Handled(KernelOptLine(boot_in[f])) =>
                KernelOptLine(boot_cfg[f]) = RUNWEASEL_KS

====
